---- MODULE Spec2Model ----
(***************************************************************************)
(* A model of the audiobook pipeline: the chapter parser shared by the     *)
(* narration step (utils/tts_engine.py) and the subtitle step              *)
(* (utils/subtitle_gen.py), the caption chunker, the timing allocator, the *)
(* subtitle serializer and validator, the two per-chapter orchestration    *)
(* loops, the names of the chapter files, and, of app.py, the audio cache  *)
(* of FreeTTSClient, the HealthCheck thread and the section parser of      *)
(* AudiobookParser.                                                        *)
(*                                                                         *)
(* Text is a sequence of one-character strings.  Seconds are exact         *)
(* rationals: a timing is a pair of numerators over the denominator        *)
(* TimeDen(rate), so that no rounding hides or invents a violation.        *)
(***************************************************************************)
EXTENDS Integers, Sequences, FiniteSets, TLC

VARIABLES
    mode,            \* which entry point this behaviour exercises
    content,         \* the text of the source document
    file_exists,     \* os.path.exists(text_file_path)
    tts_parsed,      \* <<>> before, <<chapters>> after TTSEngine._parse_chapters
    sub_parsed,      \* <<>> before, <<chapters>> after SubtitleGenerator._parse_chapters
    text,            \* the body handed to _split_text_for_subtitles
    max_chars,       \* its max_chars argument
    chunks,          \* <<>> before, <<units>> after _split_text_for_subtitles
    audio_duration,  \* None, or <<d>>: a duration of d tenths of a second
    timings,         \* <<>> before, <<result>> after _calculate_timings
    use_edge_tts,    \* TTSEngine.use_edge_tts
    tts_pc,          \* where generate_audiobook stands
    tts_chapters,    \* its local chapters
    tts_i,           \* its loop index i
    audio_files,     \* its local audio_files: the ordinals of the appended paths
    audio_disk,      \* the files in output/audio: [file, duration]
    failed,          \* the chapters for which every backend raised
    attempted,       \* the chapters whose rendering was started, in order
    srt_available,   \* SRT_AVAILABLE
    sub_pc,          \* where generate_subtitles stands
    sub_chapters,    \* its local chapters
    sub_i,           \* its loop index i
    sub_audio_files, \* its argument audio_files
    subtitle_files,  \* its local subtitle_files
    srt_disk,        \* the files in output/subtitles: [file, cues]
    cues,            \* the cues of the chapter being written
    io_failed,       \* the chapters whose subtitle file could not be written
    validation,      \* <<>> before, <<is_valid>> after validate_srt_file
    tts_cache,       \* the files of FreeTTSClient.cache_dir: [key, audio]
    tts_served,      \* <<>> before, <<[request, audio]>> after generate_tts
    audio_names,     \* <<>> before, <<names>>: the file names generate_audiobook forms
    subtitle_names,  \* <<>> before, <<names>>: the file names generate_subtitles forms
    app_parsed,      \* <<>> before, <<sections>> after AudiobookParser.parse_text_file
    is_running,      \* HealthCheck.is_running
    thread,          \* HealthCheck.thread: None, or <<t>> for the t-th thread started
    loops,           \* where each started _health_check_loop thread stands
    caller_pc,       \* where the caller of start/stop_health_check stands
    app_url_remote,  \* app_url is set and does not contain 'localhost'
    stopped,         \* the threads started before a stop_health_check that returned
    late_pings       \* the threads that sent a request while in stopped

envVars == <<mode, content, file_exists>>
parseVars == <<tts_parsed, sub_parsed>>
chunkVars == <<text, max_chars, chunks, audio_duration, timings>>
ttsVars == <<use_edge_tts, tts_pc, tts_chapters, tts_i, audio_files, audio_disk,
             failed, attempted>>
subVars == <<srt_available, sub_pc, sub_chapters, sub_i, sub_audio_files,
             subtitle_files, srt_disk, cues, io_failed>>
cacheVars == <<tts_cache, tts_served>>
nameVars == <<audio_names, subtitle_names>>
appVars == <<app_parsed>>
healthVars == <<is_running, thread, loops, caller_pc, app_url_remote, stopped,
                late_pings>>
vars == <<envVars, parseVars, chunkVars, ttsVars, subVars, validation, cacheVars,
          nameVars, appVars, healthVars>>

(***************************************************************************)
(* Bounds of the model.                                                    *)
(***************************************************************************)
MaxDocLen == 7
MaxTextLen == 5
MaxChars == 3
MaxAudioDs == 9
MaxRenderedDs == 3
MaxSrtTextLen == 4
MaxCacheTextLen == 1
MaxTtsTypeLen == 2
MaxVoiceLen == 1

\* Python's None, for a value that is otherwise the one-element tuple <<v>>
None == <<>>

(***************************************************************************)
(* Characters and the str methods the code uses.                           *)
(***************************************************************************)
NL == "\n"
SP == " "

\* the characters Python's \s and str.strip() treat as whitespace
IsSpace(c) == c \in {SP, NL}

Repeat(c, n) == [i \in 1..n |-> c]

Min(a, b) == IF a <= b THEN a ELSE b

RECURSIVE StringsUpTo(_, _)
StringsUpTo(alphabet, n) ==
    IF n = 0 THEN {<<>>}
    ELSE LET shorter == StringsUpTo(alphabet, n - 1)
         IN  shorter \cup {Append(s, c) : s \in {t \in shorter : Len(t) = n - 1},
                                         c \in alphabet}

\* s[i:] with a 0-based i
DropFirst(s, i) == SubSeq(s, i + 1, Len(s))

\* s.startswith(prefix)
StartsWith(s, prefix) ==
    /\ Len(s) >= Len(prefix)
    /\ SubSeq(s, 1, Len(prefix)) = prefix

RECURSIVE LStrip(_)
LStrip(s) ==
    IF s # <<>> /\ IsSpace(Head(s)) THEN LStrip(Tail(s)) ELSE s

RECURSIVE RStrip(_)
RStrip(s) ==
    IF s # <<>> /\ IsSpace(s[Len(s)]) THEN RStrip(SubSeq(s, 1, Len(s) - 1)) ELSE s

\* s.strip()
Strip(s) == RStrip(LStrip(s))

\* s.split(c) for a one-character separator: always at least one field
RECURSIVE SplitOn(_, _)
SplitOn(s, c) ==
    IF \E i \in 1..Len(s) : s[i] = c
    THEN LET i == CHOOSE k \in 1..Len(s) :
                      s[k] = c /\ \A j \in 1..(k - 1) : s[j] # c
         IN  <<SubSeq(s, 1, i - 1)>> \o SplitOn(DropFirst(s, i), c)
    ELSE <<s>>

\* s.split(): the maximal runs of non-whitespace
RECURSIVE Words(_)
Words(s) ==
    LET t == LStrip(s)
    IN  IF t = <<>> THEN <<>>
        ELSE LET n == IF \E i \in 1..Len(t) : IsSpace(t[i])
                      THEN (CHOOSE k \in 1..Len(t) :
                               IsSpace(t[k]) /\ \A j \in 1..(k - 1) : ~IsSpace(t[j])) - 1
                      ELSE Len(t)
             IN  <<SubSeq(t, 1, n)>> \o Words(DropFirst(t, n))

(***************************************************************************)
(* The chapter parser.  A chapter is the tuple <<title, body>>.            *)
(***************************************************************************)
Introduction == <<"I", "n", "t", "r", "o", "d", "u", "c", "t", "i", "o", "n">>
\* a marker of the '#' alone
HeadingMarker_HashOnly == <<"#">>

HeadingMarker == <<"#", SP>>

\* _parse_chapters with line 66 dropped: a heading flushes the chapter before it
\* even when that chapter's body is blank
Sub_parse_line_FlushesBlank(st, line) ==
    IF StartsWith(line, <<"#", SP>>)
    THEN [chapters        |-> Append(st.chapters,
                                     <<st.current_title, Strip(st.current_chapter)>>),
          current_title   |-> Strip(DropFirst(line, 2)),
          current_chapter |-> <<>>]
    ELSE [st EXCEPT !.current_chapter = st.current_chapter \o line \o <<NL>>]

\* the loop body of SubtitleGenerator._parse_chapters; st is the triple of
\* locals chapters, current_chapter, current_title
Sub_parse_line(st, line) ==
    IF StartsWith(line, HeadingMarker)
    THEN [chapters        |-> IF Strip(st.current_chapter) # <<>>
                              THEN Append(st.chapters,
                                          <<st.current_title, Strip(st.current_chapter)>>)
                              ELSE st.chapters,
          current_title   |-> Strip(DropFirst(line, 2)),
          current_chapter |-> <<>>]
    ELSE [st EXCEPT !.current_chapter = st.current_chapter \o line \o <<NL>>]

RECURSIVE Sub_parse_loop(_, _)
Sub_parse_loop(st, lines) ==
    IF lines = <<>> THEN st
    ELSE Sub_parse_loop(Sub_parse_line(st, Head(lines)), Tail(lines))

\* _parse_chapters with line 59 giving the text before the first heading no
\* title
Sub_parse_chapters_UntitledStart(c) ==
    LET st == Sub_parse_loop([chapters |-> <<>>, current_chapter |-> <<>>,
                              current_title |-> <<>>],
                             SplitOn(c, NL))
    IN  IF Strip(st.current_chapter) # <<>>
        THEN Append(st.chapters, <<st.current_title, Strip(st.current_chapter)>>)
        ELSE st.chapters

Sub_parse_chapters(c) ==
    LET st == Sub_parse_loop([chapters |-> <<>>, current_chapter |-> <<>>,
                              current_title |-> Introduction],
                             SplitOn(c, NL))
    IN  IF Strip(st.current_chapter) # <<>>
        THEN Append(st.chapters, <<st.current_title, Strip(st.current_chapter)>>)
        ELSE st.chapters

\* _parse_chapters with line 86 keeping the title as written, untrimmed
TTS_parse_line_KeepsTitleBlanks(st, line) ==
    IF StartsWith(line, <<"#", SP>>)
    THEN [chapters        |-> IF Strip(st.current_chapter) # <<>>
                              THEN Append(st.chapters,
                                          <<st.current_title, Strip(st.current_chapter)>>)
                              ELSE st.chapters,
          current_title   |-> DropFirst(line, 2),
          current_chapter |-> <<>>]
    ELSE [st EXCEPT !.current_chapter = st.current_chapter \o line \o <<NL>>]

\* the loop body of TTSEngine._parse_chapters
TTS_parse_line(st, line) ==
    IF StartsWith(line, HeadingMarker)
    THEN [chapters        |-> IF Strip(st.current_chapter) # <<>>
                              THEN Append(st.chapters,
                                          <<st.current_title, Strip(st.current_chapter)>>)
                              ELSE st.chapters,
          current_title   |-> Strip(DropFirst(line, 2)),
          current_chapter |-> <<>>]
    ELSE [st EXCEPT !.current_chapter = st.current_chapter \o line \o <<NL>>]

RECURSIVE TTS_parse_loop(_, _)
TTS_parse_loop(st, lines) ==
    IF lines = <<>> THEN st
    ELSE TTS_parse_loop(TTS_parse_line(st, Head(lines)), Tail(lines))

TTS_parse_chapters(c) ==
    LET st == TTS_parse_loop([chapters |-> <<>>, current_chapter |-> <<>>,
                              current_title |-> Introduction],
                             SplitOn(c, NL))
    IN  IF Strip(st.current_chapter) # <<>>
        THEN Append(st.chapters, <<st.current_title, Strip(st.current_chapter)>>)
        ELSE st.chapters

(***************************************************************************)
(* The caption chunker.                                                    *)
(***************************************************************************)
Terminal == {".", "!", "?"}

\* the match of \n\s*\n that starts at i ends at j
BreakMatch(s, i, j) ==
    /\ i < j
    /\ s[i] = NL
    /\ s[j] = NL
    /\ \A k \in (i + 1)..j : IsSpace(s[k])

\* re.sub(r'\n\s*\n', ' ', s): the leftmost newline that starts a match and
\* the longest match from there are replaced by one space, and so on
RECURSIVE SubParagraphBreaks(_)
SubParagraphBreaks(s) ==
    IF \E i, j \in 1..Len(s) : BreakMatch(s, i, j)
    THEN LET i == CHOOSE m \in 1..Len(s) :
                      /\ \E j \in 1..Len(s) : BreakMatch(s, m, j)
                      /\ \A n \in 1..(m - 1) : \A j \in 1..Len(s) : ~BreakMatch(s, n, j)
             j == CHOOSE m \in 1..Len(s) :
                      /\ BreakMatch(s, i, m)
                      /\ \A n \in (m + 1)..Len(s) : ~BreakMatch(s, i, n)
         IN  SubSeq(s, 1, i - 1) \o <<SP>> \o SubParagraphBreaks(DropFirst(s, j))
    ELSE s

\* re.sub(r'\s+', ' ', s)
RECURSIVE SubWhitespaceRuns(_)
SubWhitespaceRuns(s) ==
    IF \E i \in 1..Len(s) : IsSpace(s[i])
    THEN LET i == CHOOSE k \in 1..Len(s) :
                      IsSpace(s[k]) /\ \A j \in 1..(k - 1) : ~IsSpace(s[j])
         IN  SubSeq(s, 1, i - 1) \o <<SP>> \o SubWhitespaceRuns(LStrip(DropFirst(s, i)))
    ELSE s

\* lines 101-102 of _split_text_for_subtitles
CleanText(s) == Strip(SubWhitespaceRuns(SubParagraphBreaks(s)))

\* re.split(r'(?<=[.!?])\s+', s)
RECURSIVE SplitSentences(_)
SplitSentences(s) ==
    IF \E i \in 2..Len(s) : IsSpace(s[i]) /\ s[i - 1] \in Terminal
    THEN LET i == CHOOSE k \in 2..Len(s) :
                      /\ IsSpace(s[k]) /\ s[k - 1] \in Terminal
                      /\ \A j \in 2..(k - 1) : ~(IsSpace(s[j]) /\ s[j - 1] \in Terminal)
         IN  <<SubSeq(s, 1, i - 1)>> \o SplitSentences(LStrip(DropFirst(s, i - 1)))
    ELSE <<s>>

\* a packing round that does not count the joining separator
PackPiece_SeparatorUncounted(st, piece, sep, limit) ==
    IF Len(st.current) + Len(piece) > limit
    THEN [chunks  |-> IF st.current # <<>> THEN Append(st.chunks, Strip(st.current))
                      ELSE st.chunks,
          current |-> piece]
    ELSE [chunks  |-> st.chunks,
          current |-> IF st.current # <<>> THEN st.current \o sep \o piece ELSE piece]

\* one round of a greedy packing loop of _split_long_sentence: st holds the
\* locals chunks and current, sep is what joins a piece to a non-empty current
PackPiece(st, piece, sep, limit) ==
    IF Len(st.current) + Len(piece) + 1 > limit
    THEN [chunks  |-> IF st.current # <<>> THEN Append(st.chunks, Strip(st.current))
                      ELSE st.chunks,
          current |-> piece]
    ELSE [chunks  |-> st.chunks,
          current |-> IF st.current # <<>> THEN st.current \o sep \o piece ELSE piece]

RECURSIVE PackLoop(_, _, _, _)
PackLoop(st, pieces, sep, limit) ==
    IF pieces = <<>> THEN st
    ELSE LET nxt == PackPiece(st, Head(pieces), sep, limit)
         IN  \* the test makes TLC compute the locals at every round; it
             \* would else defer them and nest as deep as there are pieces
             IF nxt.current = <<>> THEN PackLoop(nxt, Tail(pieces), sep, limit)
             ELSE PackLoop(nxt, Tail(pieces), sep, limit)

PackAll(pieces, sep, limit) ==
    LET st == PackLoop([chunks |-> <<>>, current |-> <<>>], pieces, sep, limit)
    IN  IF st.current # <<>> THEN Append(st.chunks, Strip(st.current)) ELSE st.chunks

StripEach(parts) == [i \in 1..Len(parts) |-> Strip(parts[i])]

split_long_sentence(sentence, limit) ==
    LET parts == SplitOn(sentence, ",")
    IN  IF Len(parts) > 1
        THEN PackAll(StripEach(parts), <<",", SP>>, limit)
        ELSE PackAll(Words(sentence), <<SP>>, limit)

\* lines 115-120: a piece of a long sentence joins the running chunk
AddSubChunk(st, sub_chunk, limit) ==
    IF Len(st.current) + Len(sub_chunk) > limit
    THEN [chunks  |-> IF st.current # <<>> THEN Append(st.chunks, Strip(st.current))
                      ELSE st.chunks,
          current |-> sub_chunk]
    ELSE [chunks  |-> st.chunks,
          current |-> IF st.current # <<>> THEN st.current \o <<SP>> \o sub_chunk
                      ELSE sub_chunk]

RECURSIVE AddSubChunks(_, _, _)
AddSubChunks(st, sub_chunks, limit) ==
    IF sub_chunks = <<>> THEN st
    ELSE AddSubChunks(AddSubChunk(st, Head(sub_chunks), limit), Tail(sub_chunks), limit)

\* lines 110-128: the loop body over sentences
AddSentence(st, sentence, limit) ==
    IF Len(sentence) > limit
    THEN AddSubChunks(st, split_long_sentence(sentence, limit), limit)
    ELSE PackPiece(st, sentence, <<SP>>, limit)

RECURSIVE AddSentences(_, _, _)
AddSentences(st, sentences, limit) ==
    IF sentences = <<>> THEN st
    ELSE AddSentences(AddSentence(st, Head(sentences), limit), Tail(sentences), limit)

\* line 98: max_chars=80
DefaultMaxChars == 80

split_text_for_subtitles(s, limit) ==
    LET st == AddSentences([chunks |-> <<>>, current |-> <<>>],
                           SplitSentences(CleanText(s)), limit)
    IN  IF st.current # <<>> THEN Append(st.chunks, Strip(st.current)) ELSE st.chunks

(***************************************************************************)
(* The timing allocator.  A rate is the fraction <<rn, rd>> words per      *)
(* minute; audio durations are tenths of a second.  Every time is a        *)
(* numerator over TimeDen(rate) = 2 * rn, which holds a unit's duration    *)
(* wc * 60 / rate = (wc * 120 * rd) / (2 * rn) and the pause 0.5 = rn /    *)
(* (2 * rn) exactly.                                                       *)
(***************************************************************************)
wpm_slow == 140
wpm_normal == 180
wpm_fast == 220
default_wpm == wpm_normal

RECURSIVE SumWords(_)
SumWords(cs) == IF cs = <<>> THEN 0 ELSE Len(Words(Head(cs))) + SumWords(Tail(cs))

\* Python truth of the audio_duration argument: None and 0.0 are false
Known(d) == d # None /\ d[1] # 0

\* _calculate_timings taking the default rate whatever the audio duration
speaking_rate_IgnoresAudio(total_words, d) == <<180, 1>>

\* _calculate_timings taking the measured rate as it is, without min and max
speaking_rate_Unclamped(total_words, d) ==
    IF Known(d) THEN <<total_words * 600, d[1]>> ELSE <<default_wpm, 1>>

\* lines 177-183; total_words / (duration / 60) for a duration of d[1] tenths
\* of a second is (total_words * 600) / d[1]
speaking_rate(total_words, d) ==
    IF Known(d)
    THEN IF total_words * 600 < wpm_slow * d[1] THEN <<wpm_slow, 1>>
         ELSE IF total_words * 600 > wpm_fast * d[1] THEN <<wpm_fast, 1>>
         ELSE <<total_words * 600, d[1]>>
    ELSE <<default_wpm, 1>>

TimeDen(rate) == 2 * rate[1]

\* a duration that does not count the words of the chunk
Duration_OneWord(word_count, rate) == 120 * rate[2]

\* line 190, in units of 1 / TimeDen(rate) seconds
Duration(word_count, rate) == word_count * 120 * rate[2]

\* line 196 without the pause: current_time = end_time
NextStart_NoPause(end_time, rate) == end_time

\* line 196: current_time = end_time + 0.5
NextStart(end_time, rate) == end_time + rate[1]

RECURSIVE TimingLoop(_, _, _)
TimingLoop(cs, current_time, rate) ==
    IF cs = <<>> THEN <<>>
    ELSE LET end_time == current_time + Duration(Len(Words(Head(cs))), rate)
         IN  <<<<current_time, end_time>>>>
                 \o TimingLoop(Tail(cs), NextStart(end_time, rate), rate)

calculate_timings(cs, d) ==
    LET rate == speaking_rate(SumWords(cs), d)
    IN  [rate |-> rate, spans |-> TimingLoop(cs, 0, rate)]

(***************************************************************************)
(* The serializer.  A cue of a file is its index, its two timestamps as    *)
(* they are printed (hours, minutes, seconds and milliseconds) and its     *)
(* text.  The arithmetic is exact where the code's is binary floating      *)
(* point, which can print one millisecond less (1.001 s as 00:00:01,000).  *)
(***************************************************************************)
\* _format_timestamp, lines 246-251, of the time t[1] / t[2] seconds
format_timestamp(t) ==
    LET whole == t[1] \div t[2]
    IN  [hours     |-> whole \div 3600,
         minutes   |-> (whole % 3600) \div 60,
         secs      |-> whole % 60,
         millisecs |-> ((t[1] % t[2]) * 1000) \div t[2]]

\* n / d rounded to the nearest integer, a tie to the even one
RoundHalfEven(n, d) ==
    LET q == n \div d
        r == n % d
    IN  IF 2 * r > d \/ (2 * r = d /\ q % 2 = 1) THEN q + 1 ELSE q

\* datetime.timedelta(seconds=t), lines 219-220: whole microseconds
timedelta(t) ==
    LET ms_num == (t[1] % t[2]) * 1000
        us     == (ms_num \div t[2]) * 1000
                      + RoundHalfEven((ms_num % t[2]) * 1000, t[2])
    IN  [seconds      |-> (t[1] \div t[2]) + (us \div 1000000),
         microseconds |-> us % 1000000]

TimedeltaLess(a, b) ==
    \/ a.seconds < b.seconds
    \/ a.seconds = b.seconds /\ a.microseconds < b.microseconds

\* srt.timedelta_to_srt_timestamp, which srt.compose prints a time with
timedelta_to_srt_timestamp(td) ==
    [hours     |-> td.seconds \div 3600,
     minutes   |-> (td.seconds % 3600) \div 60,
     secs      |-> td.seconds % 60,
     millisecs |-> td.microseconds \div 1000]

\* srt.Subtitle.__lt__: the order of (start, end, index)
SubtitleLess(a, b) ==
    \/ TimedeltaLess(a.start, b.start)
    \/ /\ a.start = b.start
       /\ \/ TimedeltaLess(a.end, b.end)
          \/ a.end = b.end /\ a.index < b.index

\* sorted(subtitles): a stable insertion of sub into the sorted list
RECURSIVE InsertSorted(_, _)
InsertSorted(sorted, sub) ==
    IF sorted = <<>> THEN <<sub>>
    ELSE IF SubtitleLess(sub, Head(sorted)) THEN <<sub>> \o sorted
    ELSE <<Head(sorted)>> \o InsertSorted(Tail(sorted), sub)

RECURSIVE Sorted(_)
Sorted(subs) ==
    IF subs = <<>> THEN <<>>
    ELSE InsertSorted(Sorted(SubSeq(subs, 1, Len(subs) - 1)), subs[Len(subs)])

\* srt._should_skip_sub: no content, or a start after the end
should_skip_sub(sub) ==
    \/ Strip(sub.content) = <<>>
    \/ TimedeltaLess(sub.end, sub.start)

\* srt.sort_and_reindex and the printing of srt.compose: the subtitles in
\* order, the skipped ones left out, numbered from start_index = 1
RECURSIVE ComposeLoop(_, _)
ComposeLoop(subs, next_index) ==
    IF subs = <<>> THEN <<>>
    ELSE IF should_skip_sub(Head(subs)) THEN ComposeLoop(Tail(subs), next_index)
    ELSE <<[index   |-> next_index,
            start   |-> timedelta_to_srt_timestamp(Head(subs).start),
            end     |-> timedelta_to_srt_timestamp(Head(subs).end),
            content |-> Head(subs).content]>>
             \o ComposeLoop(Tail(subs), next_index + 1)

srt_compose(subs) == ComposeLoop(Sorted(subs), 1)

\* the number enumerate() gives position k of zip(chunks, timings), without
\* the i + 1 of lines 218 and 238
CueIndex_FromZero(k) == k - 1

\* lines 218 and 238: i + 1 for the k-th pair, i counting from 0
CueIndex(k) == (k - 1) + 1

\* _create_srt_with_library, lines 216-229
create_srt_with_library(cs, ts) ==
    srt_compose([k \in 1..Min(Len(cs), Len(ts.spans)) |->
                    [index   |-> CueIndex(k),
                     start   |-> timedelta(<<ts.spans[k][1], TimeDen(ts.rate)>>),
                     end     |-> timedelta(<<ts.spans[k][2], TimeDen(ts.rate)>>),
                     content |-> cs[k]]])

\* _create_srt_manual, lines 233-242
create_srt_manual(cs, ts) ==
    [k \in 1..Min(Len(cs), Len(ts.spans)) |->
        [index   |-> CueIndex(k),
         start   |-> format_timestamp(<<ts.spans[k][1], TimeDen(ts.rate)>>),
         end     |-> format_timestamp(<<ts.spans[k][2], TimeDen(ts.rate)>>),
         content |-> cs[k]]]

\* lines 93-96 of _create_srt_file
SrtCues(cs, ts) ==
    IF srt_available THEN create_srt_with_library(cs, ts)
    ELSE create_srt_manual(cs, ts)

\* the decimal digits of n
RECURSIVE Decimal(_)
Decimal(n) ==
    LET digit == <<"0", "1", "2", "3", "4", "5", "6", "7", "8", "9">>[(n % 10) + 1]
    IN  IF n < 10 THEN <<digit>> ELSE Append(Decimal(n \div 10), digit)

\* the format specs 02d and 03d
ZeroPadded(n, width) == Repeat("0", width - Len(Decimal(n))) \o Decimal(n)

\* HH:MM:SS,mmm, line 251
TimestampText(t) ==
    ZeroPadded(t.hours, 2) \o <<":">> \o ZeroPadded(t.minutes, 2) \o <<":">>
        \o ZeroPadded(t.secs, 2) \o <<",">> \o ZeroPadded(t.millisecs, 3)

Arrow == <<"-", "-", ">">>

\* lines 238-240: the three lines of a cue and the blank line after them
CueText(cue) ==
    Decimal(cue.index) \o <<NL>>
        \o TimestampText(cue.start) \o <<SP>> \o Arrow \o <<SP>>
        \o TimestampText(cue.end) \o <<NL>>
        \o cue.content \o <<NL, NL>>

\* what a subtitle file holds as text
RECURSIVE SrtText(_)
SrtText(file_cues) ==
    IF file_cues = <<>> THEN <<>>
    ELSE CueText(Head(file_cues)) \o SrtText(Tail(file_cues))

\* Python's 'sub in s'
Contains(s, sub) ==
    \E i \in 1..(Len(s) - Len(sub) + 1) : SubSeq(s, i, i + Len(sub) - 1) = sub

\* list(srt.parse(content)), line 261, raises on text that is not a run of
\* cue blocks; what the two writers produce is such a run, and so is the
\* text of no cue
srt_parse_raises(file_cues) == FALSE

\* validate_srt_file, lines 255-270, on a file that holds file_cues
validate_srt_file(file_cues) ==
    IF srt_available
    THEN ~srt_parse_raises(file_cues)
    ELSE Contains(SrtText(file_cues), Arrow) /\ Strip(SrtText(file_cues)) # <<>>

(***************************************************************************)
(* Specification SpecParse: both parsers applied to one document.          *)
(***************************************************************************)
DocAlphabet == {"#", SP, NL, "a"}
Documents == StringsUpTo(DocAlphabet, MaxDocLen)

ParseIdle ==
    /\ tts_parsed = <<>>
    /\ sub_parsed = <<>>

ChunkIdle ==
    /\ text = <<>>
    /\ max_chars = 0
    /\ chunks = <<>>
    /\ audio_duration = None
    /\ timings = <<>>

TtsIdle ==
    /\ tts_pc = "idle"
    /\ tts_chapters = <<>>
    /\ tts_i = 0
    /\ audio_files = <<>>
    /\ audio_disk = {}
    /\ failed = {}
    /\ attempted = <<>>

SubIdle ==
    /\ sub_pc = "idle"
    /\ sub_chapters = <<>>
    /\ sub_i = 0
    /\ sub_audio_files = <<>>
    /\ subtitle_files = <<>>
    /\ srt_disk = {}
    /\ cues = <<>>
    /\ io_failed = {}
    /\ validation = <<>>

CacheIdle ==
    /\ tts_cache = {}
    /\ tts_served = <<>>

NamesIdle ==
    /\ audio_names = <<>>
    /\ subtitle_names = <<>>

AppIdle == app_parsed = <<>>

\* HealthCheck.__init__, lines 43-46
HealthIdle ==
    /\ is_running = FALSE
    /\ thread = None
    /\ loops = <<>>
    /\ caller_pc = "idle"
    /\ stopped = {}
    /\ late_pings = {}

InitParse ==
    /\ mode = "parse"
    /\ content \in Documents
    /\ file_exists = TRUE
    /\ ParseIdle
    /\ ChunkIdle
    /\ use_edge_tts = FALSE
    /\ TtsIdle
    /\ srt_available = FALSE
    /\ SubIdle
    /\ CacheIdle
    /\ NamesIdle
    /\ AppIdle
    /\ HealthIdle
    /\ app_url_remote = FALSE

ParseForNarration ==
    /\ mode = "parse"
    /\ tts_parsed = <<>>
    /\ tts_parsed' = <<TTS_parse_chapters(content)>>
    /\ UNCHANGED <<envVars, validation, cacheVars, nameVars, appVars, healthVars, sub_parsed, chunkVars, ttsVars, subVars>>

ParseForSubtitles ==
    /\ mode \in {"parse", "present"}
    /\ sub_parsed = <<>>
    /\ sub_parsed' = <<Sub_parse_chapters(content)>>
    /\ UNCHANGED <<envVars, validation, cacheVars, nameVars, appVars, healthVars, tts_parsed, chunkVars, ttsVars, subVars>>

NextParse == ParseForNarration \/ ParseForSubtitles

SpecParse == InitParse /\ [][NextParse]_vars

(***************************************************************************)
(* Specification SpecChunk: one body is chunked, then timed.               *)
(***************************************************************************)
TextAlphabet == {"a", SP, NL, ",", "."}
Bodies == StringsUpTo(TextAlphabet, MaxTextLen)
AudioDurations == {None} \cup {<<ds>> : ds \in 0..MaxAudioDs}

\* a body of two sentences, the second one longer than 80 characters
HelloWorldBody ==
    <<"H", "e", "l", "l", "o", " ", "w", "o", "r", "l", "d", ".", " ", "T",
      "h", "i", "s", " ", "i", "s", " ", "a", " ", "t", "e", "s", "t", " ",
      "o", "f", " ", "s", "u", "b", "t", "i", "t", "l", "e", " ", "g", "e",
      "n", "e", "r", "a", "t", "i", "o", "n", " ", "t", "h", "a", "t", " ",
      "d", "e", "f", "i", "n", "i", "t", "e", "l", "y", " ", "e", "x", "c",
      "e", "e", "d", "s", " ", "e", "i", "g", "h", "t", "y", " ", "c", "h",
      "a", "r", "a", "c", "t", "e", "r", "s", " ", "i", "n", " ", "t", "o",
      "t", "a", "l", " ", "l", "e", "n", "g", "t", "h", ".">>

\* a sentence of 90 characters without a comma: words of 1, 79 and 8
\* characters
NinetyCharSentence == <<"a", SP>> \o Repeat("b", 79) \o <<SP>> \o Repeat("c", 8)

\* the body is any bounded text with any bounded max_chars, or the
\* two-sentence body with max_chars = 40, or the 90-character sentence with
\* the default max_chars
InitChunk ==
    /\ mode = "chunk"
    /\ content = <<>>
    /\ file_exists = TRUE
    /\ ParseIdle
    /\ \/ text \in Bodies /\ max_chars \in 1..MaxChars
       \/ text = HelloWorldBody /\ max_chars = 40
       \/ text = NinetyCharSentence /\ max_chars = DefaultMaxChars
    /\ chunks = <<>>
    /\ audio_duration = None
    /\ timings = <<>>
    /\ use_edge_tts = FALSE
    /\ TtsIdle
    /\ srt_available = FALSE
    /\ SubIdle
    /\ CacheIdle
    /\ NamesIdle
    /\ AppIdle
    /\ HealthIdle
    /\ app_url_remote = FALSE

SplitText ==
    /\ mode \in {"chunk", "srt"}
    /\ chunks = <<>>
    /\ chunks' = <<split_text_for_subtitles(text, max_chars)>>
    /\ UNCHANGED <<envVars, validation, cacheVars, nameVars, appVars, healthVars, parseVars, text, max_chars, audio_duration, timings,
                   ttsVars, subVars>>

CalculateTimings ==
    /\ mode \in {"chunk", "srt"}
    /\ chunks # <<>>
    /\ timings = <<>>
    /\ \E d \in AudioDurations :
          /\ audio_duration' = d
          /\ timings' = <<calculate_timings(chunks[1], d)>>
    /\ UNCHANGED <<envVars, validation, cacheVars, nameVars, appVars, healthVars, parseVars, text, max_chars, chunks, ttsVars, subVars>>

NextChunk == SplitText \/ CalculateTimings

SpecChunk == InitChunk /\ [][NextChunk]_vars

(***************************************************************************)
(* The narration run, TTSEngine.generate_audiobook.  A path is named by    *)
(* the ordinal i + 1 its file name starts with.  Whether a backend raises  *)
(* is the environment's choice.                                            *)
(***************************************************************************)
\* the durations a rendered chapter's audio file can have
RenderedDurations == {<<ds>> : ds \in 1..MaxRenderedDs}

\* __init__, lines 20-38: self.tts_engine is set only when edge-tts is not used
tts_engine_initialised == ~use_edge_tts

\* an 'except Exception' handler that only prints, as opposed to one that
\* lets the exception go on
pyttsx3_except_Reraises == "raised"

\* lines 157-158: the handler of _generate_pyttsx3 prints and returns
pyttsx3_except == "caught"

\* the source file taken to be there without a look at the disk
source_exists_Unchecked == TRUE

\* os.path.exists(text_file_path), line 42 of tts_engine.py and line 25 of
\* subtitle_gen.py
source_exists == file_exists

\* lines 42-43
AudiobookSourceMissing ==
    /\ mode = "pipeline"
    /\ tts_pc = "idle"
    /\ ~source_exists
    /\ tts_pc' = "raised"
    /\ UNCHANGED <<envVars, validation, cacheVars, nameVars, appVars, healthVars, parseVars, chunkVars, subVars, use_edge_tts, tts_chapters,
                   tts_i, audio_files, audio_disk, failed, attempted>>

\* lines 46-50
StartAudiobook ==
    /\ mode = "pipeline"
    /\ tts_pc = "idle"
    /\ source_exists
    /\ tts_chapters' = TTS_parse_chapters(content)
    /\ tts_i' = 0
    /\ audio_files' = <<>>
    /\ tts_pc' = "render"
    /\ UNCHANGED <<envVars, validation, cacheVars, nameVars, appVars, healthVars, parseVars, chunkVars, subVars, use_edge_tts, audio_disk,
                   failed, attempted>>

\* lines 67 and 52: the path is appended and the loop goes on
AppendAudioFile ==
    /\ audio_files' = Append(audio_files, tts_i + 1)
    /\ tts_i' = tts_i + 1
    /\ tts_pc' = "render"

\* lines 62-63 and 99-122: edge-tts renders the chapter and writes its file
RenderEdgeTts ==
    /\ mode = "pipeline"
    /\ tts_pc = "render"
    /\ tts_i < Len(tts_chapters)
    /\ use_edge_tts
    /\ \E d \in RenderedDurations :
          audio_disk' = {f \in audio_disk : f.file # tts_i + 1}
                            \cup {[file |-> tts_i + 1, duration |-> d]}
    /\ attempted' = Append(attempted, tts_i + 1)
    /\ AppendAudioFile
    /\ UNCHANGED <<envVars, validation, cacheVars, nameVars, appVars, healthVars, parseVars, chunkVars, subVars, use_edge_tts, tts_chapters,
                   failed>>

\* lines 124-127: edge-tts raises, the handler calls _generate_pyttsx3
EdgeTtsRaises ==
    /\ mode = "pipeline"
    /\ tts_pc = "render"
    /\ tts_i < Len(tts_chapters)
    /\ use_edge_tts
    /\ attempted' = Append(attempted, tts_i + 1)
    /\ tts_pc' = "fallback"
    /\ UNCHANGED <<envVars, validation, cacheVars, nameVars, appVars, healthVars, parseVars, chunkVars, subVars, use_edge_tts, tts_chapters,
                   tts_i, audio_files, audio_disk, failed>>

Pyttsx3Called ==
    \/ tts_pc = "fallback"
    \/ tts_pc = "render" /\ tts_i < Len(tts_chapters) /\ ~use_edge_tts

\* lines 131-155: pyttsx3 renders the chapter and writes its file
RenderPyttsx3 ==
    /\ mode = "pipeline"
    /\ Pyttsx3Called
    /\ tts_engine_initialised
    /\ \E d \in RenderedDurations :
          audio_disk' = {f \in audio_disk : f.file # tts_i + 1}
                            \cup {[file |-> tts_i + 1, duration |-> d]}
    /\ attempted' = IF tts_pc = "fallback" THEN attempted
                    ELSE Append(attempted, tts_i + 1)
    /\ AppendAudioFile
    /\ UNCHANGED <<envVars, validation, cacheVars, nameVars, appVars, healthVars, parseVars, chunkVars, subVars, use_edge_tts, tts_chapters,
                   failed>>

\* lines 131-158: something in _generate_pyttsx3 raises (self.tts_engine is
\* missing, or the engine or the conversion fails) and its handler runs
Pyttsx3Raises ==
    /\ mode = "pipeline"
    /\ Pyttsx3Called
    /\ attempted' = IF tts_pc = "fallback" THEN attempted
                    ELSE Append(attempted, tts_i + 1)
    /\ failed' = failed \cup {tts_i + 1}
    /\ IF pyttsx3_except = "caught"
       THEN AppendAudioFile
       ELSE /\ tts_pc' = "raised"
            /\ UNCHANGED <<audio_files, tts_i>>
    /\ UNCHANGED <<envVars, validation, cacheVars, nameVars, appVars, healthVars, parseVars, chunkVars, subVars, use_edge_tts, tts_chapters,
                   audio_disk>>

\* line 69
ReturnAudioFiles ==
    /\ mode = "pipeline"
    /\ tts_pc = "render"
    /\ tts_i = Len(tts_chapters)
    /\ tts_pc' = "returned"
    /\ UNCHANGED <<envVars, validation, cacheVars, nameVars, appVars, healthVars, parseVars, chunkVars, subVars, use_edge_tts, tts_chapters,
                   tts_i, audio_files, audio_disk, failed, attempted>>

AudiobookStep ==
    \/ AudiobookSourceMissing
    \/ StartAudiobook
    \/ RenderEdgeTts
    \/ EdgeTtsRaises
    \/ RenderPyttsx3
    \/ Pyttsx3Raises
    \/ ReturnAudioFiles

(***************************************************************************)
(* The subtitle run, SubtitleGenerator.generate_subtitles, and the         *)
(* serializer.  A stop of the run and an OSError of open() or write() are  *)
(* the environment's choice.                                               *)
(***************************************************************************)
\* _get_audio_duration: the duration of the file if it is there, else None
get_audio_duration(audio_file) ==
    IF \E f \in audio_disk : f.file = audio_file
    THEN (CHOOSE f \in audio_disk : f.file = audio_file).duration
    ELSE None

\* every chapter timed against the first audio file of the list
ChapterAudioDuration_FirstFile(i, files) ==
    IF files # <<>> THEN get_audio_duration(files[1]) ELSE None

\* lines 39-41 and 84
ChapterAudioDuration(i, files) ==
    IF i < Len(files) THEN get_audio_duration(files[i + 1]) ELSE None

\* lines 84-90 of _create_srt_file
ChapterCues(body, d) ==
    LET cs == split_text_for_subtitles(body, DefaultMaxChars)
    IN  SrtCues(cs, calculate_timings(cs, d))

SrtFile(k) == CHOOSE f \in srt_disk : f.file = k
SrtWritten(k, cs) == {f \in srt_disk : f.file # k} \cup {[file |-> k, cues |-> cs]}

\* lines 25-26
SubtitleSourceMissing ==
    /\ mode = "pipeline"
    /\ sub_pc = "idle"
    /\ tts_pc \in {"returned", "raised"}
    /\ ~source_exists
    /\ sub_pc' = "raised"
    /\ UNCHANGED <<envVars, validation, cacheVars, nameVars, appVars, healthVars, parseVars, chunkVars, ttsVars, srt_available, sub_chapters,
                   sub_i, sub_audio_files, subtitle_files, srt_disk, cues, io_failed>>

\* lines 29-33; the caller passes the list generate_audiobook returned, or
\* its first paths only, or no audio files at all
StartSubtitles ==
    /\ mode = "pipeline"
    /\ sub_pc = "idle"
    /\ tts_pc = "returned"
    /\ source_exists
    /\ sub_audio_files' \in {SubSeq(audio_files, 1, n) : n \in 0..Len(audio_files)}
    /\ sub_chapters' = Sub_parse_chapters(content)
    /\ sub_i' = 0
    /\ subtitle_files' = <<>>
    /\ sub_pc' = "chapter"
    /\ UNCHANGED <<envVars, validation, cacheVars, nameVars, appVars, healthVars, parseVars, chunkVars, ttsVars, srt_available, srt_disk,
                   cues, io_failed>>

\* lines 35-50, 84-90 and the open() of line 228 or 233: the cues of chapter
\* i are computed and the destination is opened for writing, which leaves it
\* empty
OpenSrtFile ==
    /\ mode = "pipeline"
    /\ sub_pc = "chapter"
    /\ sub_i < Len(sub_chapters)
    /\ cues' = ChapterCues(sub_chapters[sub_i + 1][2],
                           ChapterAudioDuration(sub_i, sub_audio_files))
    /\ srt_disk' = SrtWritten(sub_i + 1, <<>>)
    /\ sub_pc' = "writing"
    /\ UNCHANGED <<envVars, validation, cacheVars, nameVars, appVars, healthVars, parseVars, chunkVars, ttsVars, srt_available, sub_chapters,
                   sub_i, sub_audio_files, subtitle_files, io_failed>>

\* open() raises OSError: nothing in _create_srt_file or generate_subtitles
\* catches it
OpenSrtFileRaises ==
    /\ mode = "pipeline"
    /\ sub_pc = "chapter"
    /\ sub_i < Len(sub_chapters)
    /\ io_failed' = io_failed \cup {sub_i + 1}
    /\ sub_pc' = "raised"
    /\ UNCHANGED <<envVars, validation, cacheVars, nameVars, appVars, healthVars, parseVars, chunkVars, ttsVars, srt_available, sub_chapters,
                   sub_i, sub_audio_files, subtitle_files, srt_disk, cues>>

\* line 51 and back to line 35
AppendSubtitleFile ==
    /\ subtitle_files' = Append(subtitle_files, sub_i + 1)
    /\ sub_i' = sub_i + 1
    /\ sub_pc' = "chapter"

\* lines 228-229: _create_srt_with_library writes the composed text at once
WriteSrtWithLibrary ==
    /\ mode = "pipeline"
    /\ sub_pc = "writing"
    /\ srt_available
    /\ srt_disk' = SrtWritten(sub_i + 1, cues)
    /\ AppendSubtitleFile
    /\ UNCHANGED <<envVars, validation, cacheVars, nameVars, appVars, healthVars, parseVars, chunkVars, ttsVars, srt_available, sub_chapters,
                   sub_audio_files, cues, io_failed>>

\* lines 234-242: _create_srt_manual writes the next cue
WriteSrtCueManual ==
    /\ mode = "pipeline"
    /\ sub_pc = "writing"
    /\ ~srt_available
    /\ Len(SrtFile(sub_i + 1).cues) < Len(cues)
    /\ srt_disk' = SrtWritten(sub_i + 1,
                              SubSeq(cues, 1, Len(SrtFile(sub_i + 1).cues) + 1))
    /\ UNCHANGED <<envVars, validation, cacheVars, nameVars, appVars, healthVars, parseVars, chunkVars, ttsVars, srt_available, sub_pc,
                   sub_chapters, sub_i, sub_audio_files, subtitle_files, cues,
                   io_failed>>

\* the loop of line 234 ends and the file is closed
CloseSrtManual ==
    /\ mode = "pipeline"
    /\ sub_pc = "writing"
    /\ ~srt_available
    /\ Len(SrtFile(sub_i + 1).cues) = Len(cues)
    /\ AppendSubtitleFile
    /\ UNCHANGED <<envVars, validation, cacheVars, nameVars, appVars, healthVars, parseVars, chunkVars, ttsVars, srt_available, sub_chapters,
                   sub_audio_files, srt_disk, cues, io_failed>>

\* f.write raises OSError: the file is closed with what it holds and the
\* exception leaves generate_subtitles
WriteSrtRaises ==
    /\ mode = "pipeline"
    /\ sub_pc = "writing"
    /\ srt_available \/ Len(SrtFile(sub_i + 1).cues) < Len(cues)
    /\ io_failed' = io_failed \cup {sub_i + 1}
    /\ sub_pc' = "raised"
    /\ UNCHANGED <<envVars, validation, cacheVars, nameVars, appVars, healthVars, parseVars, chunkVars, ttsVars, srt_available, sub_chapters,
                   sub_i, sub_audio_files, subtitle_files, srt_disk, cues>>

\* line 53
ReturnSubtitleFiles ==
    /\ mode = "pipeline"
    /\ sub_pc = "chapter"
    /\ sub_i = Len(sub_chapters)
    /\ sub_pc' = "returned"
    /\ UNCHANGED <<envVars, validation, cacheVars, nameVars, appVars, healthVars, parseVars, chunkVars, ttsVars, srt_available, sub_chapters,
                   sub_i, sub_audio_files, subtitle_files, srt_disk, cues, io_failed>>

\* the run is stopped while generate_subtitles is at work
StopRun ==
    /\ mode = "pipeline"
    /\ sub_pc \in {"chapter", "writing"}
    /\ sub_pc' = "stopped"
    /\ UNCHANGED <<envVars, validation, cacheVars, nameVars, appVars, healthVars, parseVars, chunkVars, ttsVars, srt_available, sub_chapters,
                   sub_i, sub_audio_files, subtitle_files, srt_disk, cues, io_failed>>

SubtitleStep ==
    \/ SubtitleSourceMissing
    \/ StartSubtitles
    \/ OpenSrtFile
    \/ OpenSrtFileRaises
    \/ WriteSrtWithLibrary
    \/ WriteSrtCueManual
    \/ CloseSrtManual
    \/ WriteSrtRaises
    \/ ReturnSubtitleFiles
    \/ StopRun

(***************************************************************************)
(* Specification Spec: generate_audiobook, then generate_subtitles, on one *)
(* source document.                                                        *)
(***************************************************************************)
\* two sentences of 51 characters: together they do not fit 80 characters
TwoCueBody == Repeat("a", 50) \o <<".", SP>> \o Repeat("b", 50) \o <<".">>

\* a chapter body of commas and spaces alone, longer than the default
\* max_chars: ", , , ... ,"
CommaBody == [i \in 1..(DefaultMaxChars + 1) |-> IF i % 2 = 1 THEN "," ELSE SP]

PipelineDocuments ==
    { <<>>,
      <<"#", SP, "C", NL>> \o CommaBody,
      <<"#", SP, "A", NL>> \o TwoCueBody,
      <<"y", ".", NL, "#", SP, "A", NL, "y", ".", NL, "#", SP, "B", NL>> \o TwoCueBody,
      <<"#", SP, "A", NL, "y", ",", SP, "y", ".", NL, "#", SP, "B", NL, "z", ".">> }

Init ==
    /\ mode = "pipeline"
    /\ content \in PipelineDocuments
    /\ file_exists \in BOOLEAN
    /\ ParseIdle
    /\ ChunkIdle
    /\ use_edge_tts \in BOOLEAN
    /\ TtsIdle
    /\ srt_available \in BOOLEAN
    /\ SubIdle
    /\ CacheIdle
    /\ NamesIdle
    /\ AppIdle
    /\ HealthIdle
    /\ app_url_remote = FALSE

Next == AudiobookStep \/ SubtitleStep

Spec == Init /\ [][Next]_vars

(***************************************************************************)
(* Specification SpecSrt: one body is chunked and timed, the result is     *)
(* serialized by the writer SRT_AVAILABLE selects, and the file is         *)
(* validated.                                                              *)
(***************************************************************************)
SrtBodies == StringsUpTo(TextAlphabet, MaxSrtTextLen)

InitSrt ==
    /\ mode = "srt"
    /\ content = <<>>
    /\ file_exists = TRUE
    /\ ParseIdle
    /\ text \in SrtBodies
    /\ max_chars \in 1..MaxChars
    /\ chunks = <<>>
    /\ audio_duration = None
    /\ timings = <<>>
    /\ use_edge_tts = FALSE
    /\ TtsIdle
    /\ srt_available \in BOOLEAN
    /\ SubIdle
    /\ CacheIdle
    /\ NamesIdle
    /\ AppIdle
    /\ HealthIdle
    /\ app_url_remote = FALSE

\* lines 93-96 with 216-229 or 233-242: the file is written in full
CreateSrt ==
    /\ mode = "srt"
    /\ timings # <<>>
    /\ srt_disk = {}
    /\ srt_disk' = {[file |-> 1, cues |-> SrtCues(chunks[1], timings[1])]}
    /\ UNCHANGED <<envVars, validation, cacheVars, nameVars, appVars, healthVars, parseVars, chunkVars, ttsVars, srt_available,
                   sub_pc, sub_chapters, sub_i, sub_audio_files, subtitle_files,
                   cues, io_failed>>

\* lines 255-270
ValidateSrtFile ==
    /\ mode = "srt"
    /\ srt_disk # {}
    /\ validation = <<>>
    /\ validation' = <<validate_srt_file(SrtFile(1).cues)>>
    /\ UNCHANGED <<envVars, cacheVars, nameVars, appVars, healthVars, parseVars, chunkVars, ttsVars, subVars>>

NextSrt == SplitText \/ CalculateTimings \/ CreateSrt \/ ValidateSrtFile

SpecSrt == InitSrt /\ [][NextSrt]_vars

(***************************************************************************)
(* Specification SpecCache: FreeTTSClient.generate_tts (app.py) on a cache *)
(* directory that is empty or holds the audio of one earlier request.  A   *)
(* string is a sequence of symbols, and the symbols "gtts", "pyttsx3" and  *)
(* "edge" stand for these letters in a row; no symbol is the beginning of  *)
(* another, so two sequences are equal exactly when the strings are.       *)
(***************************************************************************)
\* the values of tts_type that lines 304-308 render
Engines == {<<"gtts">>, <<"pyttsx3">>, <<"edge">>}

CacheTexts == StringsUpTo({"a", "_"}, MaxCacheTextLen)
TtsTypes == Engines \cup StringsUpTo({"edge", "_"}, MaxTtsTypeLen)
Voices == StringsUpTo({"a", "_"}, MaxVoiceLen)

\* line 203: f"{text}_{tts_type}_{voice}"
cache_key_content(txt, tts_type, voice) ==
    txt \o <<"_">> \o tts_type \o <<"_">> \o voice

\* lines 201-204; the md5 digest stands for the content it is taken of
get_cache_key(txt, tts_type, voice) == cache_key_content(txt, tts_type, voice)

\* the audio rendered for a request is named by the request
RenderedAudio(txt, tts_type, voice) == <<txt, tts_type, voice>>

CacheFile(cache_key, audio_data) == [key |-> cache_key, audio |-> audio_data]

\* lines 206-214
get_cached_audio(cache_key) ==
    IF \E c \in tts_cache : c.key = cache_key
    THEN (CHOOSE c \in tts_cache : c.key = cache_key).audio
    ELSE None

\* lines 216-222
cache_audio(cache_key, audio_data) ==
    {c \in tts_cache : c.key # cache_key} \cup {CacheFile(cache_key, audio_data)}

InitCache ==
    /\ mode = "cache"
    /\ content = <<>>
    /\ file_exists = TRUE
    /\ ParseIdle
    /\ ChunkIdle
    /\ use_edge_tts = FALSE
    /\ TtsIdle
    /\ srt_available = FALSE
    /\ SubIdle
    /\ tts_cache \in {{}} \cup
          {{CacheFile(get_cache_key(t, e, v), RenderedAudio(t, e, v))} :
              t \in CacheTexts, e \in Engines, v \in Voices}
    /\ tts_served = <<>>
    /\ NamesIdle
    /\ AppIdle
    /\ HealthIdle
    /\ app_url_remote = FALSE

\* lines 293-326: a cache hit is returned before tts_type is looked at; else
\* an engine renders the text or fails, and what it rendered is cached
GenerateTts ==
    /\ mode = "cache"
    /\ tts_served = <<>>
    /\ \E txt \in CacheTexts, tts_type \in TtsTypes, voice \in Voices,
          use_cache \in BOOLEAN :
          LET cache_key == get_cache_key(txt, tts_type, voice)
              cached_audio == IF use_cache THEN get_cached_audio(cache_key) ELSE None
              Served(audio_data) ==
                  <<[request |-> <<txt, tts_type, voice>>, audio |-> audio_data]>>
          IN  IF cached_audio # None
              THEN /\ tts_served' = Served(cached_audio)
                   /\ UNCHANGED tts_cache
              ELSE \E audio_data \in
                         IF tts_type \in Engines
                         THEN {None, RenderedAudio(txt, tts_type, voice)}
                         ELSE {None} :
                       /\ tts_served' = Served(audio_data)
                       /\ tts_cache' = IF audio_data # None /\ use_cache
                                       THEN cache_audio(cache_key, audio_data)
                                       ELSE tts_cache
    /\ UNCHANGED <<envVars, validation, nameVars, appVars, healthVars, parseVars, chunkVars, ttsVars, subVars>>

NextCache == GenerateTts

SpecCache == InitCache /\ [][NextCache]_vars

(***************************************************************************)
(* Properties of the chapter parser, under SpecParse.                      *)
(***************************************************************************)
IsHeading(line) == StartsWith(line, HeadingMarker)
NonBlank(line) == Strip(line) # <<>>
HeadingLines(ls) == {i \in 1..Len(ls) : IsHeading(ls[i])}

\* a non-blank line stands before every heading line
LeadingContent(ls) ==
    \E i \in 1..Len(ls) : NonBlank(ls[i]) /\ \A j \in 1..i : ~IsHeading(ls[j])

\* a non-blank line follows heading h before the next heading
BodyNonBlank(ls, h) ==
    \E i \in (h + 1)..Len(ls) : NonBlank(ls[i]) /\ \A j \in (h + 1)..i : ~IsHeading(ls[j])

ParsedCounts ==
    {Len(r[1]) : r \in {x \in {tts_parsed, sub_parsed} : x # <<>>}}

\* C5 as stated: the number of chapters is the number of lines that start
\* with '# ', plus one iff non-heading content precedes the first heading.
C5_ChapterPerHeadingLine ==
    LET ls == SplitOn(content, NL)
    IN  \A n \in ParsedCounts :
            n = Cardinality(HeadingLines(ls)) + (IF LeadingContent(ls) THEN 1 ELSE 0)

\* C5 amended: the number of chapters is the number of '# ' lines that are
\* followed by a non-blank line before the next '# ' line or the end of the
\* text, plus one iff a non-blank line precedes the first '# ' line.
C5_ChapterPerHeadingWithBody ==
    LET ls == SplitOn(content, NL)
    IN  \A n \in ParsedCounts :
            n = Cardinality({h \in HeadingLines(ls) : BodyNonBlank(ls, h)})
                  + (IF LeadingContent(ls) THEN 1 ELSE 0)

\* a parsed document with a heading whose body is blank and a heading whose
\* body is not
C5_Witness ==
    LET ls == SplitOn(content, NL)
    IN  /\ sub_parsed # <<>>
        /\ tts_parsed # <<>>
        /\ Len(sub_parsed[1]) >= 1
        /\ \E h \in HeadingLines(ls) : ~BodyNonBlank(ls, h)
        /\ \E h \in HeadingLines(ls) : BodyNonBlank(ls, h)

\* C6: the parser of the narration step and the parser of the subtitle step
\* return the same ordered list of (title, body) chapters for every document.
C6_ParsersAgree ==
    (tts_parsed # <<>> /\ sub_parsed # <<>>) => tts_parsed[1] = sub_parsed[1]

\* both parsers have run on a document with an implicit and a titled chapter
C6_Witness ==
    /\ tts_parsed # <<>>
    /\ sub_parsed # <<>>
    /\ Len(sub_parsed[1]) >= 2
    /\ sub_parsed[1][1][1] = Introduction
    /\ sub_parsed[1][2][1] # <<>>

(***************************************************************************)
(* Properties of the chunker and the allocator, under SpecChunk.           *)
(***************************************************************************)
RECURSIVE JoinWithSpaces(_)
JoinWithSpaces(units) ==
    IF units = <<>> THEN <<>>
    ELSE IF Len(units) = 1 THEN units[1]
    ELSE units[1] \o <<SP>> \o JoinWithSpaces(Tail(units))

SingleToken(unit) == unit # <<>> /\ \A i \in 1..Len(unit) : ~IsSpace(unit[i])

\* C1: every caption unit is at most max_chars long, unless it is exactly one
\* whitespace-free token that is itself longer than max_chars.
C1_UnitsWithinMaxChars ==
    chunks # <<>> =>
        \A i \in 1..Len(chunks[1]) :
            Len(chunks[1][i]) <= max_chars \/ SingleToken(chunks[1][i])

\* C2: the units joined with single spaces hold the same sequence of words as
\* the whitespace-normalized body.
C2_WordsPreserved ==
    chunks # <<>> => Words(JoinWithSpaces(chunks[1])) = Words(CleanText(text))

TimingsOf == timings[1].spans
HalfSecond == timings[1].rate[1]

\* C3: the first start is >= 0, every unit has end > start, and
\* end[i] + 0.5 <= start[i+1] for every consecutive pair.
C3_TimelineIncreasing ==
    timings # <<>> =>
        /\ \A i \in 1..Len(TimingsOf) :
              /\ TimingsOf[i][1] >= 0
              /\ TimingsOf[i][2] > TimingsOf[i][1]
        /\ \A i \in 1..(Len(TimingsOf) - 1) :
              2 * (TimingsOf[i + 1][1] - TimingsOf[i][2]) >= TimeDen(timings[1].rate)

\* three units timed against a known audio duration
C3_Witness ==
    /\ timings # <<>>
    /\ Known(audio_duration)
    /\ Len(TimingsOf) >= 3
    /\ Len(TimingsOf) = Len(chunks[1])

LastEnd == TimingsOf[Len(TimingsOf)][2]

\* C4 as stated: with a known audio duration the end of the last unit does
\* not exceed that duration.
C4_LastEndWithinAudio ==
    (timings # <<>> /\ Known(audio_duration) /\ TimingsOf # <<>>) =>
        10 * LastEnd <= audio_duration[1] * TimeDen(timings[1].rate)

\* C4 amended: with a known audio duration and a measured rate
\* total_words / (duration / 60) of at most 220, the end of the last unit
\* does not exceed the duration plus the n-1 pauses of 0.5 s.
C4_NarrationWithinAudio ==
    (/\ timings # <<>>
     /\ Known(audio_duration)
     /\ TimingsOf # <<>>
     /\ SumWords(chunks[1]) * 600 <= wpm_fast * audio_duration[1]) =>
        10 * (LastEnd - (Len(TimingsOf) - 1) * HalfSecond)
            <= audio_duration[1] * TimeDen(timings[1].rate)

\* two units timed at a measured rate inside [140, 220]
C4_Witness ==
    /\ timings # <<>>
    /\ Known(audio_duration)
    /\ Len(TimingsOf) >= 2
    /\ SumWords(chunks[1]) * 600 <= wpm_fast * audio_duration[1]
    /\ SumWords(chunks[1]) * 600 >= wpm_slow * audio_duration[1]

(***************************************************************************)
(* Properties of the two runs, under Spec.                                 *)
(***************************************************************************)
\* C7: a chapter whose rendering fails in every backend does not abort
\* generate_audiobook: rendering is started for every chapter, in order, and
\* the call returns.
C7_RenderFailureDoesNotAbort ==
    /\ failed # {} => tts_pc # "raised"
    /\ \A k \in 1..Len(attempted) : attempted[k] = k
    /\ tts_pc = "returned" =>
          /\ Len(attempted) = Len(tts_chapters)
          /\ Len(audio_files) = Len(tts_chapters)
    /\ tts_pc \in {"render", "fallback"} => ENABLED AudiobookStep

\* the call has returned although a chapter before the last one failed
C7_Witness ==
    /\ tts_pc = "returned"
    /\ \E k \in failed : k < Len(tts_chapters)
    /\ Len(attempted) = Len(tts_chapters)

\* C8: a chapter for which the backends failed is not in the returned list
\* of audio files, and no subtitle file is written for it.
C8_FailedChapterSkipped ==
    \A k \in failed :
        /\ \A j \in 1..Len(audio_files) : audio_files[j] # k
        /\ \A f \in srt_disk : f.file # k

\* C9: an I/O error while writing one chapter's subtitle file does not abort
\* generate_subtitles.
C9_WriteErrorDoesNotAbort ==
    io_failed # {} => sub_pc # "raised"

\* C10: when the run is stopped, no subtitle file holds some but not all of
\* its chapter's cues.
C10_NoPartialSubtitleFile ==
    sub_pc = "stopped" =>
        \A f \in srt_disk :
            (f.file = sub_i + 1 /\ f.cues # <<>>) => f.cues = cues

(***************************************************************************)
(* Properties of the two runs on a missing source file, under Spec.        *)
(***************************************************************************)
\* C11: when the source file does not exist, generate_audiobook and
\* generate_subtitles each raise before a chapter is parsed or processed, and
\* neither an audio file nor a subtitle file is written.
C11_MissingSourceRaisesFirst ==
    ~file_exists =>
        /\ tts_pc \in {"idle", "raised"}
        /\ tts_chapters = <<>>
        /\ attempted = <<>>
        /\ audio_files = <<>>
        /\ audio_disk = {}
        /\ sub_pc \in {"idle", "raised"}
        /\ sub_chapters = <<>>
        /\ subtitle_files = <<>>
        /\ srt_disk = {}

C11_Witness ==
    /\ ~file_exists
    /\ content # <<>>
    /\ tts_pc = "raised"
    /\ sub_pc = "raised"

(***************************************************************************)
(* Properties of the per-chapter order of the two runs, under Spec.        *)
(***************************************************************************)
\* the chapters whose subtitle file generate_subtitles has written in full
WrittenChapters == {subtitle_files[k] : k \in 1..Len(subtitle_files)}

\* the chapters whose audio file is in output/audio
RenderedChapters == {f.file : f \in audio_disk}

\* C12: a chapter's subtitle file is written only after that chapter's audio
\* has been rendered, and a chapter whose rendering failed is never written.
C12_WrittenOnlyAfterRendered ==
    \A k \in WrittenChapters : k \in RenderedChapters /\ k \notin failed

(***************************************************************************)
(* Properties of the pairing of chapters and audio files, under Spec.      *)
(***************************************************************************)
\* the durations of the audio file that stands at position k of the list
\* handed to generate_subtitles: none if the list is shorter or the file is
\* not there
AudioAtPosition(k) ==
    IF k \in DOMAIN sub_audio_files
    THEN {f.duration : f \in {g \in audio_disk : g.file = sub_audio_files[k]}}
    ELSE {}

DurationAtPosition(k) ==
    IF AudioAtPosition(k) = {} THEN None ELSE CHOOSE d \in AudioAtPosition(k) : TRUE

CuesAtPosition(k) ==
    LET cs == split_text_for_subtitles(sub_chapters[k][2], DefaultMaxChars)
    IN  SrtCues(cs, calculate_timings(cs, DurationAtPosition(k)))

\* C13: a run of generate_subtitles that returns has written exactly one
\* subtitle file per parsed chapter and returns them in chapter order; the
\* file of chapter k is timed against the audio file at position k of the
\* list, which is the audio of chapter k, or against no audio when the list
\* is shorter.
C13_OneFilePerChapterByPosition ==
    /\ sub_pc = "returned" =>
          /\ subtitle_files = [k \in 1..Len(sub_chapters) |-> k]
          /\ {f.file : f \in srt_disk} = 1..Len(sub_chapters)
    /\ \A k \in WrittenChapters :
          /\ k \in DOMAIN sub_audio_files => sub_audio_files[k] = k
          /\ SrtFile(k).cues = CuesAtPosition(k)

C13_Witness ==
    /\ sub_pc = "returned"
    /\ Len(sub_chapters) = 3
    /\ Len(sub_audio_files) = 2
    /\ DurationAtPosition(1) # None
    /\ DurationAtPosition(2) # None
    /\ CuesAtPosition(1) # CuesAtPosition(2)
    /\ sub_chapters[1][2] = sub_chapters[2][2]

(***************************************************************************)
(* Properties of the serializer and the validator, under SpecSrt.          *)
(***************************************************************************)
\* a printed timestamp in milliseconds
TimestampMillis(t) == ((t.hours * 60 + t.minutes) * 60 + t.secs) * 1000 + t.millisecs

\* the printed timestamp t is at most a millisecond from num / den seconds
PrintsTime(t, num, den) ==
    /\ (TimestampMillis(t) - 1) * den <= num * 1000
    /\ num * 1000 <= (TimestampMillis(t) + 1) * den

\* C14: the file holds one cue per unit, in the order of the units, numbered
\* 1..n without a gap or a repetition, and cue k holds the text of unit k and
\* the start and end of unit k, printed to the millisecond.
C14_OneCuePerUnit ==
    \A f \in srt_disk :
        /\ Len(f.cues) = Len(chunks[1])
        /\ \A k \in 1..Len(f.cues) :
              /\ f.cues[k].index = k
              /\ f.cues[k].content = chunks[1][k]
              /\ PrintsTime(f.cues[k].start, TimingsOf[k][1], TimeDen(timings[1].rate))
              /\ PrintsTime(f.cues[k].end, TimingsOf[k][2], TimeDen(timings[1].rate))

C14_Witness ==
    /\ mode = "srt"
    /\ ~srt_available
    /\ Known(audio_duration)
    /\ \E f \in srt_disk :
          /\ Len(f.cues) >= 2
          /\ f.cues[1].content # f.cues[2].content
          /\ f.cues[2].start.millisecs # 0

\* C15: for a body without a word the chunker returns no unit, the allocator
\* returns no timing (also with a known audio duration), the serializer
\* writes a file without a cue, and validate_srt_file accepts that file.
C15_EmptyBodyValidFile ==
    (mode = "srt" /\ Words(text) = <<>>) =>
        /\ chunks # <<>> => chunks[1] = <<>>
        /\ timings # <<>> => TimingsOf = <<>>
        /\ \A f \in srt_disk : f.cues = <<>>
        /\ validation # <<>> => validation[1] = TRUE

(***************************************************************************)
(* Properties of the chunker on single words and short sentences, under    *)
(* SpecChunk.                                                              *)
(***************************************************************************)
\* C16: a word longer than max_chars is a unit of its own, with its
\* characters unchanged and not joined to a neighbouring word.
C16_LongWordOwnUnit ==
    chunks # <<>> =>
        \A i \in 1..Len(Words(text)) :
            Len(Words(text)[i]) > max_chars =>
                \E k \in 1..Len(chunks[1]) : chunks[1][k] = Words(text)[i]

(***************************************************************************)
(* Properties of the audio cache, under SpecCache.                         *)
(***************************************************************************)
\* C17: the audio generate_tts returns for a request is audio rendered for
\* the same text, engine and voice: a cache entry stored for one triple is
\* never returned for another.
C17_CacheKeyedByTriple ==
    \A r \in {tts_served[k] : k \in DOMAIN tts_served} :
        r.audio # None => r.audio = RenderedAudio(r.request[1], r.request[2], r.request[3])

(***************************************************************************)
(* Properties of the speaking rate and of the walk of the allocator, under *)
(* SpecChunk.                                                              *)
(***************************************************************************)
Max(a, b) == IF a >= b THEN a ELSE b

RateOf == timings[1].rate
TotalWords == SumWords(chunks[1])

\* the rate is total_words / (duration / 60) brought into [140, 220], for an
\* audio duration of ds tenths of a second
RateIsClamped(total_words, ds) ==
    RateOf[1] * ds = RateOf[2] * Min(Max(total_words * 600, 140 * ds), 220 * ds)

RateIsDefault == RateOf[1] = 180 * RateOf[2]

\* C18 as stated: the rate is the clamped measured rate when an audio
\* duration is known and total_words > 0, and the default 180 otherwise.
C18_DefaultRateWithoutWords ==
    timings # <<>> =>
        IF Known(audio_duration) /\ TotalWords > 0
        THEN RateIsClamped(TotalWords, audio_duration[1])
        ELSE RateIsDefault

\* C18 amended: the rate is the clamped measured rate whenever the audio
\* duration is known and not zero, also for total_words = 0, where it is
\* 140; it is the default 180 when the duration is None or 0; it is always
\* within [140, 220] and is a fraction with a non-zero denominator.
C18_RateClampedOrDefault ==
    timings # <<>> =>
        /\ RateOf[2] > 0
        /\ 140 * RateOf[2] <= RateOf[1]
        /\ RateOf[1] <= 220 * RateOf[2]
        /\ ~Known(audio_duration) => RateIsDefault
        /\ Known(audio_duration) =>
              LET total_words == TotalWords
              IN  /\ RateIsClamped(total_words, audio_duration[1])
                  /\ total_words = 0 => RateOf = <<140, 1>>

C18_Witness ==
    /\ mode = "chunk"
    /\ timings # <<>>
    /\ Known(audio_duration)
    /\ TotalWords = 0
    /\ text # <<>>
    /\ RateOf = <<140, 1>>

RECURSIVE SumSpans(_)
SumSpans(spans) ==
    IF spans = <<>> THEN 0 ELSE (Head(spans)[2] - Head(spans)[1]) + SumSpans(Tail(spans))

\* C19: the first start is 0, a unit lasts word_count * 60 / rate seconds,
\* the next unit starts 0.5 s after the end of the one before; without a
\* known audio duration the n units of W words in all last W * 60 / 180
\* seconds together and the last one ends at W * 60 / 180 + 0.5 * (n - 1).
C19_WalkFromZero ==
    timings # <<>> =>
        LET n   == Len(TimingsOf)
            den == TimeDen(RateOf)
        IN  /\ n = Len(chunks[1])
            /\ n > 0 => TimingsOf[1][1] = 0
            /\ \A k \in 1..n :
                  (TimingsOf[k][2] - TimingsOf[k][1]) * RateOf[1]
                      = Len(Words(chunks[1][k])) * 60 * RateOf[2] * den
            /\ \A k \in 1..(n - 1) :
                  2 * (TimingsOf[k + 1][1] - TimingsOf[k][2]) = den
            /\ (~Known(audio_duration) /\ n > 0) =>
                  /\ 3 * SumSpans(TimingsOf) = TotalWords * den
                  /\ 6 * LastEnd = den * (2 * TotalWords + 3 * (n - 1))

C19_Witness ==
    /\ mode = "chunk"
    /\ timings # <<>>
    /\ ~Known(audio_duration)
    /\ Len(TimingsOf) >= 2
    /\ TotalWords > Len(TimingsOf)

(***************************************************************************)
(* Properties of the packing of sentences, under SpecChunk.                *)
(***************************************************************************)
\* the sentences of the normalized body
Sentences ==
    LET all == SplitSentences(CleanText(text))
    IN  SelectSeq(all, LAMBDA x : x # <<>>)

AllFit(sents, limit) == \A i \in 1..Len(sents) : Len(sents[i]) <= limit

\* the reference packing: a unit is the longest run of the next sentences
\* that, joined with single spaces, fits limit
RECURSIVE GreedyPacking(_, _)
GreedyPacking(sents, limit) ==
    IF sents = <<>> THEN <<>>
    ELSE LET fits == {j \in 1..Len(sents) :
                         Len(JoinWithSpaces(SubSeq(sents, 1, j))) <= limit}
             m    == CHOOSE j \in fits : \A i \in fits : i <= j
         IN  <<JoinWithSpaces(SubSeq(sents, 1, m))>>
                 \o GreedyPacking(SubSeq(sents, m + 1, Len(sents)), limit)

\* C20: when every sentence fits max_chars the units are the greedy
\* left-to-right packing of the sentences, none split and none out of
\* order; and the two-sentence body with max_chars = 40 gives a first unit
\* "Hello world.", a second unit that begins "This is a test", and no unit
\* longer than 40.
C20_GreedySentencePacking ==
    chunks # <<>> =>
        /\ LET sents == Sentences
           IN  AllFit(sents, max_chars) => chunks[1] = GreedyPacking(sents, max_chars)
        /\ text = HelloWorldBody =>
              /\ Len(chunks[1]) >= 2
              /\ chunks[1][1] = SubSeq(HelloWorldBody, 1, 12)
              /\ StartsWith(chunks[1][2], SubSeq(HelloWorldBody, 14, 27))
              /\ \A k \in 1..Len(chunks[1]) : Len(chunks[1][k]) <= 40

C20_Witness ==
    /\ mode = "chunk"
    /\ chunks # <<>>
    /\ AllFit(Sentences, max_chars)
    /\ Len(Sentences) >= 3
    /\ Len(chunks[1]) = 2

(***************************************************************************)
(* Properties of the chunker on one long sentence, under SpecChunk.        *)
(***************************************************************************)
\* C21: a body that is one sentence longer than max_chars, without a comma
\* and with no word longer than max_chars, is split into at least 2 units,
\* each at most max_chars long; so for the 90-character sentence and
\* max_chars = 80.
C21_LongSentenceWordPacked ==
    chunks # <<>> =>
        LET sents == Sentences
        IN  ( /\ Len(sents) = 1
              /\ Len(sents[1]) > max_chars
              /\ ~Contains(sents[1], <<",">>)
              /\ AllFit(Words(sents[1]), max_chars) ) =>
                /\ Len(chunks[1]) >= 2
                /\ AllFit(chunks[1], max_chars)

(***************************************************************************)
(* Properties of chapter boundaries and of the implicit first chapter,     *)
(* under SpecParse.                                                        *)
(***************************************************************************)
\* the line begins with one '#' and a space
ExactMarker(line) == Len(line) >= 2 /\ line[1] = "#" /\ line[2] = " "

\* the lines that begin so, in order, from line i on
RECURSIVE BoundariesFrom(_, _)
BoundariesFrom(ls, i) ==
    IF i > Len(ls) THEN <<>>
    ELSE (IF ExactMarker(ls[i]) THEN <<i>> ELSE <<>>) \o BoundariesFrom(ls, i + 1)

RECURSIVE JoinLines(_)
JoinLines(ls) == IF ls = <<>> THEN <<>> ELSE Head(ls) \o <<"\n">> \o JoinLines(Tail(ls))

\* the chapters a document stands for: a part opens at line 0 and at every
\* boundary line, its body is the trimmed text of the lines up to the next
\* boundary, and a part with a blank body is no chapter
ExpectedChapters(ls) ==
    LET starts == <<0>> \o BoundariesFrom(ls, 1)
        last(k) == IF k < Len(starts) THEN starts[k + 1] - 1 ELSE Len(ls)
        part(k) ==
            <<IF starts[k] = 0 THEN Introduction
              ELSE Strip(SubSeq(ls[starts[k]], 3, Len(ls[starts[k]]))),
              Strip(JoinLines(SubSeq(ls, starts[k] + 1, last(k))))>>
    IN  SelectSeq([k \in 1..Len(starts) |-> part(k)], LAMBDA c : c[2] # <<>>)

ParsedResults == {r[1] : r \in {x \in {tts_parsed, sub_parsed} : x # <<>>}}

\* C22: a line opens a chapter exactly when it begins with '# '; a line that
\* begins with '##', with '#' and no space, or with whitespace before the
\* marker stays in the body of the current chapter; the title of a chapter
\* is the trimmed rest of its heading line.
C22_BoundaryIffExactMarker ==
    \A parsed \in ParsedResults : parsed = ExpectedChapters(SplitOn(content, NL))

C22_Witness ==
    /\ sub_parsed # <<>>
    /\ tts_parsed # <<>>
    /\ \E k \in 1..Len(sub_parsed[1]) :
          /\ sub_parsed[1][k][1] = <<"a">>
          /\ Contains(sub_parsed[1][k][2], <<"#">>)

\* the lines before the first boundary line
LeadingLines(ls) ==
    LET bs == BoundariesFrom(ls, 1)
    IN  SubSeq(ls, 1, IF bs = <<>> THEN Len(ls) ELSE bs[1] - 1)

\* C23: non-blank lines before the first heading are the first chapter, with
\* the title "Introduction" and these lines as its body; no other chapter
\* has this title unless its heading line says so; a document without text
\* gives no chapter.
C23_ImplicitIntroduction ==
    \A parsed \in ParsedResults :
        LET ls      == SplitOn(content, NL)
            leading == Strip(JoinLines(LeadingLines(ls)))
        IN  /\ content = <<>> => parsed = <<>>
            /\ leading # <<>> =>
                  /\ parsed # <<>>
                  /\ parsed[1] = <<Introduction, leading>>
            /\ \A k \in 1..Len(parsed) :
                  parsed[k][1] = Introduction =>
                      \/ k = 1 /\ leading # <<>>
                      \/ \E i \in 1..Len(ls) :
                            /\ ExactMarker(ls[i])
                            /\ Strip(SubSeq(ls[i], 3, Len(ls[i]))) = Introduction

C23_Witness ==
    /\ sub_parsed # <<>>
    /\ tts_parsed # <<>>
    /\ Len(sub_parsed[1]) >= 2
    /\ sub_parsed[1][1][1] = Introduction
    /\ sub_parsed[1][2][1] # Introduction

(***************************************************************************)
(* The names of the chapter files.  generate_audiobook and                 *)
(* generate_subtitles form the name of the file of chapter i from i and    *)
(* from the title; SpecNames applies both to documents of two chapters     *)
(* whose titles range over word characters, separators and punctuation.    *)
(***************************************************************************)
MaxTitleLen == 2

\* \w, for the characters of ASCII
WordChars ==
    {"a", "b", "c", "d", "e", "f", "g", "h", "i", "j", "k", "l", "m", "n", "o",
     "p", "q", "r", "s", "t", "u", "v", "w", "x", "y", "z",
     "A", "B", "C", "D", "E", "F", "G", "H", "I", "J", "K", "L", "M", "N", "O",
     "P", "Q", "R", "S", "T", "U", "V", "W", "X", "Y", "Z",
     "0", "1", "2", "3", "4", "5", "6", "7", "8", "9", "_"}

\* re.sub(r'[^\w\s-]', '', title)
SubUnsafeChars(title) ==
    SelectSeq(title, LAMBDA c : c \in WordChars \/ IsSpace(c) \/ c = "-")

\* re.sub(r'[-\s]+', '_', s)
RECURSIVE SubSeparatorRuns(_)
SubSeparatorRuns(s) ==
    IF s = <<>> THEN <<>>
    ELSE IF IsSpace(s[1]) \/ s[1] = "-"
         THEN LET n == CHOOSE k \in 1..Len(s) :
                          /\ \A j \in 1..k : IsSpace(s[j]) \/ s[j] = "-"
                          /\ k = Len(s) \/ ~(IsSpace(s[k + 1]) \/ s[k + 1] = "-")
              IN  <<"_">> \o SubSeparatorRuns(DropFirst(s, n))
         ELSE <<s[1]>> \o SubSeparatorRuns(Tail(s))

safe_title(title) == SubSeparatorRuns(Strip(SubUnsafeChars(title)))

ExtSrt == <<".", "s", "r", "t">>
ExtMp3 == <<".", "m", "p", "3">>
FilePrefix == <<"c", "h", "a", "p", "t", "e", "r", "_">>

\* a name that leaves the ordinal out
chapter_filename_NoOrdinal(k, title, ext) ==
    FilePrefix \o <<"_">> \o safe_title(title) \o ext

\* f"chapter_{i+1:02d}_{safe_title}.srt" and the same with .mp3, for the
\* chapter at position k = i + 1 of the list
chapter_filename(k, title, ext) ==
    FilePrefix \o ZeroPadded((k - 1) + 1, 2) \o <<"_">> \o safe_title(title) \o ext

\* the names formed in one run over chapters chs
FileNames(chs, ext) == [k \in 1..Len(chs) |-> chapter_filename(k, chs[k][1], ext)]

TitleAlphabet == {"a", "-", SP, "!", "_"}
Titles == StringsUpTo(TitleAlphabet, MaxTitleLen)
TitledDocuments ==
    {HeadingMarker \o t1 \o <<NL, "x", NL>> \o HeadingMarker \o t2 \o <<NL, "y">> :
        t1 \in Titles, t2 \in Titles}

InitNames ==
    /\ mode = "names"
    /\ content \in TitledDocuments
    /\ file_exists = TRUE
    /\ ParseIdle
    /\ ChunkIdle
    /\ use_edge_tts = FALSE
    /\ TtsIdle
    /\ srt_available = FALSE
    /\ SubIdle
    /\ CacheIdle
    /\ NamesIdle
    /\ AppIdle
    /\ HealthIdle
    /\ app_url_remote = FALSE

\* tts_engine.py lines 50-59, for every chapter of the loop
NameAudioFiles ==
    /\ mode = "names"
    /\ audio_names = <<>>
    /\ audio_names' = <<FileNames(TTS_parse_chapters(content), ExtMp3)>>
    /\ UNCHANGED <<envVars, validation, cacheVars, subtitle_names, appVars, healthVars,
                   parseVars, chunkVars, ttsVars, subVars>>

\* subtitle_gen.py lines 32-46, for every chapter of the loop
NameSubtitleFiles ==
    /\ mode = "names"
    /\ subtitle_names = <<>>
    /\ subtitle_names' = <<FileNames(Sub_parse_chapters(content), ExtSrt)>>
    /\ UNCHANGED <<envVars, validation, cacheVars, audio_names, appVars, healthVars,
                   parseVars, chunkVars, ttsVars, subVars>>

NextNames == NameAudioFiles \/ NameSubtitleFiles

SpecNames == InitNames /\ [][NextNames]_vars

\* the name without its last four characters
Stem(name) == SubSeq(name, 1, Len(name) - 4)
Extension(name) == SubSeq(name, Len(name) - 3, Len(name))
AlphaNumerics(s) == SelectSeq(s, LAMBDA c : c \in WordChars \ {"_"})
TwoDigits(n) == <<Decimal(n \div 10)[1], Decimal(n % 10)[1]>>

\* the name is chapter_<NN>_<t><ext>, NN being the two digits of k and t a
\* word of \w characters that holds the letters and digits of the title
WellFormedName(name, k, title, ext) ==
    \E t \in {SubSeq(name, 12, n) : n \in 11..Len(name) - 4} :
        /\ name = FilePrefix \o TwoDigits(k) \o <<"_">> \o t \o ext
        /\ \A j \in 1..Len(t) : t[j] \in WordChars
        /\ AlphaNumerics(t) = AlphaNumerics(title)
        /\ \A j \in 1..Len(t) - 1 : (t[j] = "_" /\ t[j + 1] = "_") =>
              \E m \in 1..Len(title) : title[m] = "_"

C25_EveryWrittenFileHasACue ==
    /\ \A k \in 1..Len(sub_chapters) :
          /\ Strip(sub_chapters[k][2]) # <<>>
          /\ Words(sub_chapters[k][2]) # <<>>
    /\ \A f \in srt_disk :
          f.file \in WrittenChapters =>
              /\ split_text_for_subtitles(sub_chapters[f.file][2], DefaultMaxChars) # <<>>
              /\ Len(f.cues) >= 1

(***************************************************************************)
(* Properties of the pyttsx3 fallback, under Spec.                         *)
(***************************************************************************)
\* C26: whenever _generate_pyttsx3 is invoked, also after edge-tts failed
\* for a chapter, the pyttsx3 engine object has been initialised, so that
\* the fallback can render the chapter.
C26_FallbackEngineInitialised ==
    (mode = "pipeline" /\ Pyttsx3Called) => tts_engine_initialised

(***************************************************************************)
(* HealthCheck (app.py).  One caller calls start_health_check and          *)
(* stop_health_check one after the other; every thread started runs        *)
(* _health_check_loop and stands at the test of its while loop ("test"),   *)
(* in time.sleep(480) ("sleeping"), before requests.get ("request"), or    *)
(* has left the loop ("exited").  join(timeout=1) returns when the thread  *)
(* has exited, or when its second has passed, which it can while the       *)
(* thread sleeps its 480 seconds or waits up to 30 seconds for a reply.    *)
(***************************************************************************)
MaxThreads == 3

Alive == {t \in DOMAIN loops : loops[t] # "exited"}

InitHealth ==
    /\ mode = "health"
    /\ content = <<>>
    /\ file_exists = TRUE
    /\ ParseIdle
    /\ ChunkIdle
    /\ use_edge_tts = FALSE
    /\ TtsIdle
    /\ srt_available = FALSE
    /\ SubIdle
    /\ CacheIdle
    /\ NamesIdle
    /\ AppIdle
    /\ HealthIdle
    /\ app_url_remote \in BOOLEAN

\* lines 50-55
StartHealthCheck ==
    /\ mode = "health"
    /\ caller_pc = "idle"
    /\ Len(loops) < MaxThreads
    /\ IF ~is_running
       THEN /\ is_running' = TRUE
            /\ loops' = Append(loops, "test")
            /\ thread' = <<Len(loops) + 1>>
       ELSE UNCHANGED <<is_running, loops, thread>>
    /\ UNCHANGED <<caller_pc, app_url_remote, stopped, late_pings>>
    /\ UNCHANGED <<envVars, validation, cacheVars, nameVars, appVars, parseVars,
                   chunkVars, ttsVars, subVars>>

\* lines 59-61, up to the call of join; without a thread the call returns
StopHealthCheck ==
    /\ mode = "health"
    /\ caller_pc = "idle"
    /\ is_running' = FALSE
    /\ caller_pc' = IF thread # None THEN "joining" ELSE "idle"
    /\ UNCHANGED <<thread, loops, app_url_remote, stopped, late_pings>>
    /\ UNCHANGED <<envVars, validation, cacheVars, nameVars, appVars, parseVars,
                   chunkVars, ttsVars, subVars>>

\* line 61: join returns, the thread having exited or the second having
\* passed, and stop_health_check returns
JoinReturns ==
    /\ mode = "health"
    /\ caller_pc = "joining"
    /\ loops[thread[1]] \in {"exited", "sleeping", "request"}
    /\ caller_pc' = "idle"
    /\ stopped' = stopped \cup DOMAIN loops
    /\ UNCHANGED <<is_running, thread, loops, app_url_remote, late_pings>>
    /\ UNCHANGED <<envVars, validation, cacheVars, nameVars, appVars, parseVars,
                   chunkVars, ttsVars, subVars>>

\* line 65: while self.is_running
LoopTests ==
    /\ mode = "health"
    /\ \E t \in DOMAIN loops :
          /\ loops[t] = "test"
          /\ loops' = [loops EXCEPT ![t] = IF is_running THEN "sleeping" ELSE "exited"]
    /\ UNCHANGED <<is_running, thread, caller_pc, app_url_remote, stopped, late_pings>>
    /\ UNCHANGED <<envVars, validation, cacheVars, nameVars, appVars, parseVars,
                   chunkVars, ttsVars, subVars>>

\* lines 67-68: the sleep ends; is_running is not read again before the
\* request
LoopWakes ==
    /\ mode = "health"
    /\ \E t \in DOMAIN loops :
          /\ loops[t] = "sleeping"
          /\ loops' = [loops EXCEPT ![t] = IF app_url_remote THEN "request" ELSE "test"]
    /\ UNCHANGED <<is_running, thread, caller_pc, app_url_remote, stopped, late_pings>>
    /\ UNCHANGED <<envVars, validation, cacheVars, nameVars, appVars, parseVars,
                   chunkVars, ttsVars, subVars>>

\* lines 69-74: the request is sent; whatever the reply, and also when the
\* request raises, the loop goes on to its test
LoopPings ==
    /\ mode = "health"
    /\ \E t \in DOMAIN loops :
          /\ loops[t] = "request"
          /\ loops' = [loops EXCEPT ![t] = "test"]
          /\ late_pings' = IF t \in stopped THEN late_pings \cup {t} ELSE late_pings
    /\ UNCHANGED <<is_running, thread, caller_pc, app_url_remote, stopped>>
    /\ UNCHANGED <<envVars, validation, cacheVars, nameVars, appVars, parseVars,
                   chunkVars, ttsVars, subVars>>

NextHealth ==
    \/ StartHealthCheck
    \/ StopHealthCheck
    \/ JoinReturns
    \/ LoopTests
    \/ LoopWakes
    \/ LoopPings

SpecHealth == InitHealth /\ [][NextHealth]_vars

\* C27: at most one health-check loop thread is alive at any time, and no
\* loop started before a stop_health_check that has returned sends another
\* request.
C27_SingleLoopNoLatePing ==
    /\ Cardinality(Alive) <= 1
    /\ late_pings = {}

(***************************************************************************)
(* AudiobookParser.parse_text_file (app.py), the parser of the             *)
(* presentation layer.  Its dict parsed_content is the sequence of its     *)
(* <<title, body>> items in insertion order.  SpecPresent parses one       *)
(* document with it and with SubtitleGenerator._parse_chapters.            *)
(***************************************************************************)
\* re.match(r'^# (.+)$', line_stripped), for a line without a line break
section_match(line_stripped) ==
    /\ Len(line_stripped) >= 3
    /\ line_stripped[1] = "#"
    /\ line_stripped[2] = SP

\* section_match.group(1)
section_group(line_stripped) == DropFirst(line_stripped, 2)

\* '\n'.join(section_text)
RECURSIVE JoinNewline(_)
JoinNewline(ls) ==
    IF ls = <<>> THEN <<>>
    ELSE IF Len(ls) = 1 THEN ls[1]
    ELSE ls[1] \o <<NL>> \o JoinNewline(Tail(ls))

\* parsed_content[key] = value: a key of the dict keeps its place
DictSet(d, key, value) ==
    IF \E k \in 1..Len(d) : d[k][1] = key
    THEN [k \in 1..Len(d) |-> IF d[k][1] = key THEN <<key, value>> ELSE d[k]]
    ELSE Append(d, <<key, value>>)

\* lines 137-140 and 149-152: the section gathered so far is stored
StoreSection(st) ==
    IF st.current_section # None /\ st.section_text # <<>>
    THEN LET content_text == Strip(JoinNewline(st.section_text))
         IN  IF content_text # <<>>
             THEN DictSet(st.parsed_content, st.current_section[1], content_text)
             ELSE st.parsed_content
    ELSE st.parsed_content

\* lines 132-147: one round of the loop over the lines
App_parse_line(st, line) ==
    LET line_stripped == Strip(line)
    IN  IF section_match(line_stripped)
        THEN [parsed_content  |-> StoreSection(st),
              current_section |-> <<Strip(section_group(line_stripped))>>,
              section_text    |-> <<>>]
        ELSE IF st.current_section # None /\ (line_stripped # <<>> \/ st.section_text # <<>>)
             THEN [st EXCEPT !.section_text = Append(st.section_text, line)]
             ELSE st

RECURSIVE App_parse_loop(_, _)
App_parse_loop(st, lines) ==
    IF lines = <<>> THEN st
    ELSE App_parse_loop(App_parse_line(st, Head(lines)), Tail(lines))

\* lines 120-160, the file being there
parse_text_file(c) ==
    StoreSection(App_parse_loop([parsed_content |-> <<>>, current_section |-> None,
                                 section_text |-> <<>>],
                                SplitOn(c, NL)))

\* two sections of one title
RepeatedTitleDocument ==
    <<"#", SP, "a", NL, "a", NL, "#", SP, "a", NL, "a", "a">>

\* a heading marker after whitespace, below a heading
IndentedMarkerDocument ==
    <<"#", SP, "a", NL, "a", NL, SP, "#", SP, "a", NL, "a", "a">>

InitPresent ==
    /\ mode = "present"
    /\ content \in Documents \cup {RepeatedTitleDocument, IndentedMarkerDocument}
    /\ file_exists = TRUE
    /\ ParseIdle
    /\ ChunkIdle
    /\ use_edge_tts = FALSE
    /\ TtsIdle
    /\ srt_available = FALSE
    /\ SubIdle
    /\ CacheIdle
    /\ NamesIdle
    /\ AppIdle
    /\ HealthIdle
    /\ app_url_remote = FALSE

ParseForPresentation ==
    /\ mode = "present"
    /\ app_parsed = <<>>
    /\ app_parsed' = <<parse_text_file(content)>>
    /\ UNCHANGED <<envVars, validation, cacheVars, nameVars, healthVars, parseVars,
                   chunkVars, ttsVars, subVars>>

NextPresent == ParseForPresentation \/ ParseForSubtitles

SpecPresent == InitPresent /\ [][NextPresent]_vars

\* the first line that is not blank begins with '# '
FirstNonBlankIsHeading ==
    LET ls == SplitOn(content, NL)
    IN  \E i \in 1..Len(ls) :
          /\ ExactMarker(ls[i])
          /\ \A j \in 1..(i - 1) : Strip(ls[j]) = <<>>

\* C28: for a document whose first non-blank line is a '# ' heading,
\* parse_text_file returns the same sections as _parse_chapters: the same
\* titles and bodies, in the same order and number.
C28_PresentationParserAgrees ==
    (app_parsed # <<>> /\ sub_parsed # <<>> /\ FirstNonBlankIsHeading) =>
        app_parsed[1] = sub_parsed[1]

====
